---- MODULE Spec2Model ----
(***************************************************************************)
(* Model of noria's dataflow/src/processing.rs: the Miss record and its    *)
(* key projections, ReplayContext::key, and the default methods of the     *)
(* Ingredient trait (on_input_raw, can_query_through, query_through,       *)
(* lookup).  Column indices are 0-based as in the source; At(s, i) reads   *)
(* the i-th element of a Rust Vec.                                          *)
(*                                                                         *)
(* Code of the repository that processing.rs only declares or calls is     *)
(* modelled from the specification: State::lookup, Node::is_internal, the  *)
(* query_through override of a row-local filter, an on_input               *)
(* implementation that does one keyed lookup per input row, and the        *)
(* driver of the domain.                                                   *)
(***************************************************************************)
EXTENDS Integers, Sequences, FiniteSets, TLC

VARIABLES
    domains,      \* DomainNodes: local node index -> node description
    states,       \* StateMap: local node index -> materialization (partial function)
    replay,       \* the ReplayContext of the invocation in progress
    call,         \* arguments the driver passed to on_input_raw
    stack,        \* call stack of the invocation in progress (top = last)
    ret,          \* value returned by the frame that was popped last
    last_lookup,  \* observation of the lookup call that returned last
    on_input_log, \* observation: arguments of every on_input call of the invocation
    on_input_ret, \* observation: what on_input returned
    raw_ret,      \* what on_input_raw returned to the driver
    miss,         \* a Miss value (key projection specification)
    key_out       \* what the last key projection called on miss returned

vars == <<domains, states, replay, call, stack, ret, last_lookup,
          on_input_log, on_input_ret, raw_ret, miss, key_out>>

(***************************************************************************)
(* Bounds                                                                  *)
(***************************************************************************)
MaxRows == 1       \* rows one materialization holds
MaxBatch == 2      \* rows of one input batch
MaxKeyLen == 2     \* length of a column list of a Miss

Values == {"x", "y"}
Rows == {<<a, b>> : a \in Values, b \in Values}
\* The domain is a chain of three nodes: 1 is furthest upstream, 2 reads
\* from 1, and Top reads from 2 and is the operator the driver feeds.
Nodes == {1, 2, 3}
Top == CHOOSE n \in Nodes : \A m \in Nodes : m <= n

(***************************************************************************)
(* Option and friends                                                      *)
(***************************************************************************)
None == [tag |-> "None"]
Some(v) == [tag |-> "Some", val |-> v]
IsSome(o) == o.tag = "Some"
NoRet == [tag |-> "NoRet"]
NoCall == [tag |-> "NoCall"]
NoObs == [tag |-> "NoObs"]
Panic == [tag |-> "Panic"]

At(s, i) == s[i + 1]
InRange(s, i) == i >= 0 /\ i < Len(s)

ColLists(width, maxlen) == UNION {[1..n -> 0..(width - 1)] : n \in 0..maxlen}

\* cols.iter().map(|&c| &record[c]).collect()
project(record, cols) == [j \in 1..Len(cols) |-> At(record, cols[j])]

\* record[c] panics when c is out of range.
panics(record, cols) == \E j \in 1..Len(cols) : ~InRange(record, cols[j])

\* How a call ended: with a value, or in a panic.
Ok(v) == [tag |-> "Ok", val |-> v]

(***************************************************************************)
(* Miss and its key projections (processing.rs 10-48)                      *)
(***************************************************************************)
Miss(on, lookup_idx, lookup_cols, replay_cols, record) ==
    [on |-> on, lookup_idx |-> lookup_idx, lookup_cols |-> lookup_cols,
     replay_cols |-> replay_cols, record |-> record]

\* The sequence the borrowing iterator yields when it is drained.
replay_key(m) ==
    IF IsSome(m.replay_cols)
    THEN (IF panics(m.record, m.replay_cols.val)
          THEN Panic
          ELSE Ok(Some(project(m.record, m.replay_cols.val))))
    ELSE Ok(None)

replay_key_vec_uses_lookup_cols(m) ==
    IF IsSome(m.replay_cols)
    THEN (IF panics(m.record, m.lookup_cols)
          THEN Panic
          ELSE Ok(Some(project(m.record, m.lookup_cols))))
    ELSE Ok(None)

replay_key_vec(m) ==
    IF IsSome(m.replay_cols)
    THEN (IF panics(m.record, m.replay_cols.val)
          THEN Panic
          ELSE Ok(Some(project(m.record, m.replay_cols.val))))
    ELSE Ok(None)

\* The sequence the borrowing iterator yields when it is drained.
lookup_key(m) ==
    IF panics(m.record, m.lookup_cols)
    THEN Panic
    ELSE Ok(project(m.record, m.lookup_cols))

lookup_key_vec_uses_lookup_idx(m) ==
    IF panics(m.record, m.lookup_idx)
    THEN Panic
    ELSE Ok(project(m.record, m.lookup_idx))

lookup_key_vec_checks_lengths(m) ==
    IF Len(m.lookup_cols) # Len(m.lookup_idx) \/ panics(m.record, m.lookup_cols)
    THEN Panic
    ELSE Ok(project(m.record, m.lookup_cols))

lookup_key_vec(m) ==
    IF panics(m.record, m.lookup_cols)
    THEN Panic
    ELSE Ok(project(m.record, m.lookup_cols))

(***************************************************************************)
(* The domain: nodes, materializations, replay contexts                    *)
(***************************************************************************)
\* A node of the domain.  "base" is a source (not internal); "filter" is a
\* row-local operator that overrides can_query_through / query_through;
\* "op" is an internal operator that keeps the trait's defaults.
Node(kind, src) == [kind |-> kind, src |-> src]

\* Node n reads from node n - 1 (src 0: from outside the domain); Top looks
\* its input rows up in its parent.
Graphs ==
    {d \in [Nodes -> [kind : {"base", "filter", "op"}, src : 0..(Top - 1)]] :
        /\ \A n \in Nodes : d[n].src = n - 1
        /\ d[1].kind # "filter"
        /\ d[Top].kind = "op"}

is_internal(n) == n.kind # "base"

passes(row) == At(row, 1) = "x"

Keys == {<<v>> : v \in Values}
KeyColumns == <<0>>

EmptyState == [filled |-> {}, rows |-> {}]

Missing == [tag |-> "Missing"]

\* State::lookup(columns, k) of a partial materialization keyed on columns.
state_lookup(state, columns, k) ==
    IF k \in state.filled
    THEN Some({r \in state.rows : project(r, columns) = k})
    ELSE Missing

RcNone == [variant |-> "None"]
RcPartial(key_cols, keys) == [variant |-> "Partial", key_cols |-> key_cols, keys |-> keys]
RcFull(last) == [variant |-> "Full", last |-> last]

ReplayContexts ==
    {RcNone, RcPartial(<<1>>, {<<"x">>})} \cup {RcFull(l) : l \in BOOLEAN}

key_ignores_variant(rc) ==
    IF rc.variant = "Partial" THEN Some(rc.key_cols) ELSE Some(<<>>)

\* ReplayContext::key
key(rc) == IF rc.variant = "Partial" THEN Some(rc.key_cols) ELSE None

ProcessingResult(results, misses) == [results |-> results, misses |-> misses]
Regular(pr) == [variant |-> "Regular", pr |-> pr]

\* Input rows differ in the key column, the only one on_input reads.
InputRows == {<<v, "x">> : v \in Values}
Batches == UNION {[1..n -> InputRows] : n \in 0..MaxBatch}

(***************************************************************************)
(* Ingredient: defaults of the trait and the operators' overrides          *)
(***************************************************************************)
can_query_through_default == FALSE

can_query_through(n) == IF n.kind = "filter" THEN TRUE ELSE can_query_through_default

query_through_default == None

\* What a filter's query_through makes of the result of its own lookup in src.
filter_query_through(r) ==
    IF IsSome(r) /\ IsSome(r.val)
    THEN Some(Some({row \in r.val.val : passes(row)}))
    ELSE r

lookup_state_miss_is_none(st, parent, columns, k) ==
    IF parent \in DOMAIN st
    THEN (LET r == state_lookup(st[parent], columns, k)
          IN  IF r.tag = "Some" THEN Some(Some(r.val)) ELSE None)
    ELSE None

lookup_state_hit_is_miss(st, parent, columns, k) ==
    IF parent \in DOMAIN st
    THEN (LET r == state_lookup(st[parent], columns, k)
          IN  IF r.tag = "Some" /\ r.val # {} THEN Some(Some(r.val)) ELSE Some(None))
    ELSE None

\* lookup, lines 225-230: states.get(&parent).and_then(...)
lookup_state(st, parent, columns, k) ==
    IF parent \in DOMAIN st
    THEN (LET r == state_lookup(st[parent], columns, k)
          IN  IF r.tag = "Some" THEN Some(Some(r.val)) ELSE Some(None))
    ELSE None

\* lookup, lines 231-240: does the or_else closure call query_through?
lookup_or_else(dom, parent) == is_internal(dom[parent])

states_after_lookup_fills(st, parent, k) ==
    IF parent \in DOMAIN st
    THEN [st EXCEPT ![parent].filled = @ \cup {k}]
    ELSE st

\* lookup, line 223: states is a shared borrow, so the call leaves it as it is.
states_after_lookup(st, parent, k) == st

lookup_through_self(self, parent) == self

\* lookup, line 234: the node whose query_through the closure calls.
lookup_through(self, parent) == parent

lookup_return_flattens(r) == IF IsSome(r) /\ ~IsSome(r.val) THEN None ELSE r

\* lookup, line 236: the closure's value is query_through's value.
lookup_return(r) == r

(***************************************************************************)
(* The call stack                                                          *)
(***************************************************************************)
MaxDepth == 2 * Cardinality(Nodes) + 4

TopFrame == stack[Len(stack)]
Running(fn) == stack # <<>> /\ TopFrame.fn = fn
Pop == SubSeq(stack, 1, Len(stack) - 1)
Push(f) == Append(stack, f)
SetTop(f) == [stack EXCEPT ![Len(stack)] = f]
CallFrom(f, callee) == Append(SetTop(f), callee)

LookupFrame(self, parent, columns, k) ==
    [fn |-> "lookup", self |-> self, parent |-> parent, columns |-> columns,
     k |-> k, phase |-> "call"]

QueryThroughFrame(node, columns, k) ==
    [fn |-> "query_through", node |-> node, columns |-> columns, k |-> k,
     phase |-> "call"]

OnInputFrame(node, from, data, replay_key_cols) ==
    [fn |-> "on_input", node |-> node, from |-> from, data |-> data,
     replay_key_cols |-> replay_key_cols, i |-> 1, results |-> <<>>,
     misses |-> <<>>]

OnInputRawFrame(node, from, data) ==
    [fn |-> "on_input_raw", node |-> node, from |-> from, data |-> data,
     phase |-> "call"]

LookupObs(f, result, through, qt) ==
    [self |-> f.self, parent |-> f.parent, columns |-> f.columns, k |-> f.k,
     result |-> result, through |-> through, qt |-> qt]

UnchangedMiss == UNCHANGED <<miss, key_out>>
UnchangedRaw == UNCHANGED <<call, on_input_log, on_input_ret, raw_ret>>

(***************************************************************************)
(* Ingredient::lookup (processing.rs 217-241)                              *)
(***************************************************************************)
\* states.get(&parent).and_then(..) answered, or the or_else closure returns
\* None for a source, or it calls the parent's query_through.
LookupEnter ==
    /\ Running("lookup")
    /\ TopFrame.phase = "call"
    /\ LET f == TopFrame
           first == lookup_state(states, f.parent, f.columns, f.k)
       IN  IF first # None
           THEN /\ stack' = Pop
                /\ ret' = first
                /\ last_lookup' = LookupObs(f, first, FALSE, NoRet)
           ELSE IF lookup_or_else(domains, f.parent)
           THEN /\ Len(stack) < MaxDepth
                /\ stack' = CallFrom([f EXCEPT !.phase = "wait"],
                                QueryThroughFrame(lookup_through(f.self, f.parent),
                                                  f.columns, f.k))
                /\ UNCHANGED <<ret, last_lookup>>
           ELSE /\ stack' = Pop
                /\ ret' = None
                /\ last_lookup' = LookupObs(f, None, FALSE, NoRet)
    /\ states' = states_after_lookup(states, TopFrame.parent, TopFrame.k)
    /\ UNCHANGED <<domains, replay>>
    /\ UnchangedRaw
    /\ UnchangedMiss

\* query_through has returned: its value is lookup's value.
LookupReturn ==
    /\ Running("lookup")
    /\ TopFrame.phase = "wait"
    /\ ret # NoRet
    /\ stack' = Pop
    /\ ret' = lookup_return(ret)
    /\ last_lookup' = LookupObs(TopFrame, lookup_return(ret), TRUE, ret)
    /\ UNCHANGED <<domains, states, replay>>
    /\ UnchangedRaw
    /\ UnchangedMiss

(***************************************************************************)
(* Ingredient::query_through (processing.rs 201-209) and a filter's        *)
(* override                                                                *)
(***************************************************************************)
QueryThroughEnter ==
    /\ Running("query_through")
    /\ TopFrame.phase = "call"
    /\ LET f == TopFrame
       IN  IF domains[f.node].kind = "filter"
           THEN /\ Len(stack) < MaxDepth
                /\ stack' = CallFrom([f EXCEPT !.phase = "wait"],
                                LookupFrame(f.node, domains[f.node].src,
                                            f.columns, f.k))
                /\ UNCHANGED ret
           ELSE /\ stack' = Pop
                /\ ret' = query_through_default
    /\ UNCHANGED <<domains, states, replay, last_lookup>>
    /\ UnchangedRaw
    /\ UnchangedMiss

QueryThroughReturn ==
    /\ Running("query_through")
    /\ TopFrame.phase = "wait"
    /\ ret # NoRet
    /\ stack' = Pop
    /\ ret' = filter_query_through(ret)
    /\ UNCHANGED <<domains, states, replay, last_lookup>>
    /\ UnchangedRaw
    /\ UnchangedMiss

(***************************************************************************)
(* on_input of an operator that looks every input row up in its parent     *)
(***************************************************************************)
\* The row whose lookup found rows is forwarded; any other row is reported
\* as a Miss and left out of the results.
on_input_row_forwards_misses(f, row, r) ==
    IF IsSome(r) /\ IsSome(r.val)
    THEN [f EXCEPT !.results = Append(@, row), !.i = @ + 1]
    ELSE [f EXCEPT !.results = Append(@, row),
                   !.misses = Append(@, Miss(domains[f.node].src, KeyColumns,
                                             KeyColumns, f.replay_key_cols, row)),
                   !.i = @ + 1]

on_input_row(f, row, r) ==
    IF IsSome(r) /\ IsSome(r.val)
    THEN [f EXCEPT !.results = Append(@, row), !.i = @ + 1]
    ELSE [f EXCEPT !.misses = Append(@, Miss(domains[f.node].src, KeyColumns,
                                             KeyColumns, f.replay_key_cols, row)),
                   !.i = @ + 1]

OnInputStep ==
    /\ Running("on_input")
    /\ ret = NoRet
    /\ LET f == TopFrame
       IN  IF f.i <= Len(f.data)
           THEN /\ Len(stack) < MaxDepth
                /\ stack' = Push(LookupFrame(f.node, domains[f.node].src, KeyColumns,
                                             project(f.data[f.i], KeyColumns)))
                /\ UNCHANGED <<ret, on_input_ret>>
           ELSE /\ stack' = Pop
                /\ ret' = ProcessingResult(f.results, f.misses)
                /\ on_input_ret' = ProcessingResult(f.results, f.misses)
    /\ UNCHANGED <<domains, states, replay, call, last_lookup, on_input_log, raw_ret>>
    /\ UnchangedMiss

OnInputResume ==
    /\ Running("on_input")
    /\ ret # NoRet
    /\ stack' = SetTop(on_input_row(TopFrame, TopFrame.data[TopFrame.i], ret))
    /\ ret' = NoRet
    /\ UNCHANGED <<domains, states, replay, last_lookup>>
    /\ UnchangedRaw
    /\ UnchangedMiss

(***************************************************************************)
(* Ingredient::on_input_raw (processing.rs 168-185)                        *)
(***************************************************************************)
\* The arguments on_input_raw passes to on_input.
on_input_raw_args(f, rc) ==
    [node |-> f.node, from |-> f.from, data |-> f.data, replay_key_cols |-> key(rc)]

OnInputRawCall ==
    /\ Running("on_input_raw")
    /\ TopFrame.phase = "call"
    /\ LET a == on_input_raw_args(TopFrame, replay)
       IN  /\ stack' = CallFrom([TopFrame EXCEPT !.phase = "wait"],
                           OnInputFrame(a.node, a.from, a.data, a.replay_key_cols))
           /\ on_input_log' = Append(on_input_log, a)
    /\ UNCHANGED <<domains, states, replay, call, ret, last_lookup, on_input_ret, raw_ret>>
    /\ UnchangedMiss

OnInputRawReturn ==
    /\ Running("on_input_raw")
    /\ TopFrame.phase = "wait"
    /\ ret # NoRet
    /\ stack' = Pop
    /\ raw_ret' = Regular(ret)
    /\ ret' = NoRet
    /\ UNCHANGED <<domains, states, replay, call, last_lookup, on_input_log, on_input_ret>>
    /\ UnchangedMiss

(***************************************************************************)
(* The processing-unit driver                                              *)
(***************************************************************************)
Idle == stack = <<>>

ClearObservations ==
    /\ ret' = NoRet
    /\ last_lookup' = NoObs
    /\ call' = NoCall
    /\ on_input_log' = <<>>
    /\ on_input_ret' = NoRet
    /\ raw_ret' = NoRet
    /\ replay' = RcNone

\* Apply one accepted row to a materialization, filling its key.
DriverApply(n, row) ==
    /\ Idle
    /\ n \in DOMAIN states
    /\ row \notin states[n].rows
    /\ Cardinality(states[n].rows) < MaxRows
    /\ states' = [states EXCEPT ![n] =
                    [filled |-> @.filled \cup {project(row, KeyColumns)},
                     rows |-> @.rows \cup {row}]]
    /\ stack' = <<>>
    /\ ClearObservations
    /\ UNCHANGED domains
    /\ UnchangedMiss

\* A replay that found no rows fills the key with nothing.
DriverFill(n, k) ==
    /\ Idle
    /\ n \in DOMAIN states
    /\ k \notin states[n].filled
    /\ states' = [states EXCEPT ![n].filled = @ \cup {k}]
    /\ stack' = <<>>
    /\ ClearObservations
    /\ UNCHANGED domains
    /\ UnchangedMiss

\* Evict a key: its rows go, and the key is a hole again.
DriverEvict(n, k) ==
    /\ Idle
    /\ n \in DOMAIN states
    /\ k \in states[n].filled
    /\ states' = [states EXCEPT ![n] =
                    [filled |-> @.filled \ {k},
                     rows |-> {r \in @.rows : project(r, KeyColumns) # k}]]
    /\ stack' = <<>>
    /\ ClearObservations
    /\ UNCHANGED domains
    /\ UnchangedMiss

\* The result of the last invocation has been consumed.
DriverTake ==
    /\ Idle
    /\ raw_ret # NoRet \/ ret # NoRet
    /\ stack' = <<>>
    /\ ClearObservations
    /\ UNCHANGED <<domains, states>>
    /\ UnchangedMiss

\* Feed one batch to the operator furthest downstream.
Dispatch(from, data, rc) ==
    /\ Idle
    /\ raw_ret = NoRet
    /\ from = domains[Top].src
    /\ call' = [node |-> Top, from |-> from, data |-> data]
    /\ replay' = rc
    /\ stack' = <<OnInputRawFrame(Top, from, data)>>
    /\ ret' = NoRet
    /\ last_lookup' = NoObs
    /\ on_input_log' = <<>>
    /\ on_input_ret' = NoRet
    /\ raw_ret' = NoRet
    /\ UNCHANGED <<domains, states>>
    /\ UnchangedMiss

\* Some node looks a key up in one of its ancestors.
CallLookup(self, parent, k) ==
    /\ Idle
    /\ ret = NoRet
    /\ parent < self
    /\ stack' = <<LookupFrame(self, parent, KeyColumns, k)>>
    /\ ClearObservations
    /\ UNCHANGED <<domains, states>>
    /\ UnchangedMiss

(***************************************************************************)
(* Specifications                                                          *)
(***************************************************************************)
Materializable == Nodes \ {Top}

EmptyStates(ns) == [n \in ns |-> EmptyState]

NoMiss == Miss(1, <<>>, <<>>, None, <<"x", "x">>)

InitDomain ==
    /\ domains \in Graphs
    /\ states \in {EmptyStates(ns) : ns \in SUBSET Materializable}
    /\ replay = RcNone
    /\ call = NoCall
    /\ stack = <<>>
    /\ ret = NoRet
    /\ last_lookup = NoObs
    /\ on_input_log = <<>>
    /\ on_input_ret = NoRet
    /\ raw_ret = NoRet

Init ==
    /\ InitDomain
    /\ miss = NoMiss
    /\ key_out = NoCall

DriverStep ==
    \/ \E n \in Nodes, row \in Rows : DriverApply(n, row)
    \/ \E n \in Nodes, k \in Keys : DriverFill(n, k)
    \/ \E n \in Nodes, k \in Keys : DriverEvict(n, k)
    \/ DriverTake

LookupStep ==
    \/ LookupEnter
    \/ LookupReturn
    \/ QueryThroughEnter
    \/ QueryThroughReturn

Next ==
    \/ DriverStep
    \/ \E from \in Nodes \ {Top}, data \in Batches, rc \in ReplayContexts :
          Dispatch(from, data, rc)
    \/ OnInputRawCall
    \/ OnInputRawReturn
    \/ OnInputStep
    \/ OnInputResume
    \/ LookupStep

Spec == Init /\ [][Next]_vars

LookupNext ==
    \/ DriverStep
    \/ \E self \in Nodes, parent \in Nodes, k \in Keys : CallLookup(self, parent, k)
    \/ LookupStep

LookupSpec == Init /\ [][LookupNext]_vars /\ WF_vars(LookupStep)

(***************************************************************************)
(* Key projections of a Miss, on their own                                 *)
(***************************************************************************)
\* Column lists may name a column one past the record's last.
Misses ==
    {Miss(1, li, lc, rc, rec) :
        li \in ColLists(2, MaxKeyLen),
        lc \in ColLists(3, MaxKeyLen),
        rc \in {None} \cup {Some(c) : c \in ColLists(3, MaxKeyLen)},
        rec \in Rows}

KeyOut(fn, val) == [fn |-> fn, val |-> val, self |-> miss]

UnchangedDomain ==
    UNCHANGED <<domains, states, replay, call, stack, ret, last_lookup,
                on_input_log, on_input_ret, raw_ret>>

CallReplayKey ==
    /\ key_out' = KeyOut("replay_key", replay_key(miss))
    /\ UNCHANGED miss
    /\ UnchangedDomain

CallReplayKeyVec ==
    /\ key_out' = KeyOut("replay_key_vec", replay_key_vec(miss))
    /\ UNCHANGED miss
    /\ UnchangedDomain

CallLookupKey ==
    /\ key_out' = KeyOut("lookup_key", lookup_key(miss))
    /\ UNCHANGED miss
    /\ UnchangedDomain

CallLookupKeyVec ==
    /\ key_out' = KeyOut("lookup_key_vec", lookup_key_vec(miss))
    /\ UNCHANGED miss
    /\ UnchangedDomain

MissInit ==
    /\ domains = [n \in Nodes |-> Node(IF n = 1 THEN "base" ELSE "op", n - 1)]
    /\ states = EmptyStates({})
    /\ replay = RcNone
    /\ call = NoCall
    /\ stack = <<>>
    /\ ret = NoRet
    /\ last_lookup = NoObs
    /\ on_input_log = <<>>
    /\ on_input_ret = NoRet
    /\ raw_ret = NoRet
    /\ miss \in Misses
    /\ key_out = NoCall

MissNext ==
    \/ CallReplayKey
    \/ CallReplayKeyVec
    \/ CallLookupKey
    \/ CallLookupKeyVec

MissSpec == MissInit /\ [][MissNext]_vars

(***************************************************************************)
(* Properties                                                              *)
(***************************************************************************)
Materialized(n) == n \in DOMAIN states

\* A materialization at n, or at an ancestor that n reaches through a chain
\* of nodes that can be queried through.
RECURSIVE ChainUsable(_)
ChainUsable(n) ==
    \/ Materialized(n)
    \/ /\ is_internal(domains[n])
       /\ can_query_through(domains[n])
       /\ domains[n].src \in Nodes
       /\ ChainUsable(domains[n].src)

Looked == last_lookup # NoObs

C2_MaterializedAnswersAlone ==
    Looked /\ Materialized(last_lookup.parent) =>
        LET st == states[last_lookup.parent]
        IN  /\ ~last_lookup.through
            /\ last_lookup.result =
                 IF last_lookup.k \in st.filled
                 THEN Some(Some({r \in st.rows :
                                   \A j \in 1..Len(last_lookup.columns) :
                                      At(r, last_lookup.columns[j]) = last_lookup.k[j]}))
                 ELSE Some(None)

\* A materialized filter missed the key although its parent holds a row of
\* the key that passes the filter.
C2_Witness ==
    /\ Looked
    /\ Materialized(last_lookup.parent)
    /\ domains[last_lookup.parent].kind = "filter"
    /\ last_lookup.result = Some(None)
    /\ Materialized(domains[last_lookup.parent].src)
    /\ \E r \in states[domains[last_lookup.parent].src].rows :
          passes(r) /\ project(r, last_lookup.columns) = last_lookup.k

\* C3: when parent is internal and not materialized, lookup calls the parent's
\* query_through and returns its value unchanged; through an unmaterialized
\* filter whose parent is materialized and holds the key, that is
\* Some(Some(rows)), the rows of the key that pass the filter.
C3_ReturnsQueryThrough ==
    Looked /\ ~Materialized(last_lookup.parent)
           /\ is_internal(domains[last_lookup.parent]) =>
        LET p == domains[last_lookup.parent]
        IN  /\ last_lookup.through
            /\ last_lookup.result = last_lookup.qt
            /\ last_lookup.result \in {None, Some(None)}
                  \/ (IsSome(last_lookup.result) /\ IsSome(last_lookup.result.val))
            /\ (p.kind = "filter" /\ Materialized(p.src)
                   /\ last_lookup.k \in states[p.src].filled) =>
                 last_lookup.result =
                    Some(Some({r \in states[p.src].rows :
                                 /\ project(r, last_lookup.columns) = last_lookup.k
                                 /\ passes(r)}))

\* A lookup through an unmaterialized filter found a row in the filter's parent.
C3_Witness ==
    /\ Looked
    /\ ~Materialized(last_lookup.parent)
    /\ domains[last_lookup.parent].kind = "filter"
    /\ IsSome(last_lookup.result)
    /\ IsSome(last_lookup.result.val)
    /\ last_lookup.result.val.val # {}

\* C4: on_input_raw calls on_input once, with its own from and data and with
\* the key columns of a Partial replay context (None for the other contexts),
\* and returns Regular of on_input's result.
C4_ForwardsToOnInput ==
    /\ Len(on_input_log) <= 1
    /\ raw_ret # NoRet =>
        /\ Len(on_input_log) = 1
        /\ on_input_log[1].node = call.node
        /\ on_input_log[1].from = call.from
        /\ on_input_log[1].data = call.data
        /\ replay.variant = "Partial" =>
              on_input_log[1].replay_key_cols = Some(replay.key_cols)
        /\ replay.variant \in {"None", "Full"} =>
              on_input_log[1].replay_key_cols = None
        /\ raw_ret.variant = "Regular"
        /\ raw_ret.pr = on_input_ret

\* on_input_raw has returned under a full replay, with rows and misses.
C4_Witness ==
    /\ raw_ret # NoRet
    /\ replay.variant = "Full"
    /\ raw_ret.pr.results # <<>>
    /\ raw_ret.pr.misses # <<>>

InRangeCols(record, cols) == \A j \in 1..Len(cols) : cols[j] < Len(record)

Called(fns) == key_out # NoCall /\ key_out.fn \in fns

\* C5: when every lookup_cols index is inside record, lookup_key_vec and
\* lookup_key give the values of record at lookup_cols, in that order, and
\* leave the Miss as it was.
C5_LookupKeyProjects ==
    Called({"lookup_key", "lookup_key_vec"})
        /\ InRangeCols(miss.record, miss.lookup_cols) =>
        /\ key_out.val.tag = "Ok"
        /\ Len(key_out.val.val) = Len(miss.lookup_cols)
        /\ \A i \in 1..Len(miss.lookup_cols) :
              key_out.val.val[i] = miss.record[miss.lookup_cols[i] + 1]
        /\ lookup_key(miss) = lookup_key_vec(miss)
        /\ key_out.self = miss

\* lookup_key_vec kept the order of lookup_cols [1, 0].
C5_Witness ==
    /\ Called({"lookup_key_vec"})
    /\ miss.lookup_cols = <<1, 0>>
    /\ miss.lookup_idx = <<0, 1>>
    /\ miss.record = <<"x", "y">>
    /\ key_out.val = Ok(<<"y", "x">>)

\* C6: replay_key_vec is None exactly when replay_cols is None, and otherwise
\* Some of the values of record at replay_cols, whatever lookup_cols and
\* lookup_idx are.
C6_ReplayKeyProjects ==
    Called({"replay_key_vec"})
        /\ (IsSome(miss.replay_cols) => InRangeCols(miss.record, miss.replay_cols.val)) =>
        /\ key_out.val.tag = "Ok"
        /\ (key_out.val.val = None) <=> (miss.replay_cols = None)
        /\ IsSome(miss.replay_cols) =>
              /\ IsSome(key_out.val.val)
              /\ key_out.val.val.val =
                    [i \in 1..Len(miss.replay_cols.val) |->
                        miss.record[miss.replay_cols.val[i] + 1]]

\* record [x, y], lookup_cols [0], replay_cols Some([1]): replay key Some([y]).
C6_Witness ==
    /\ Called({"replay_key_vec"})
    /\ miss.record = <<"x", "y">>
    /\ miss.lookup_cols = <<0>>
    /\ miss.lookup_idx = <<1>>
    /\ miss.replay_cols = Some(<<1>>)
    /\ key_out.val = Ok(Some(<<"y">>))

\* C7: no row that was reported as a Miss is among the results, and every
\* input row is either forwarded or reported.
C7_MissesExcluded ==
    on_input_ret # NoRet =>
        /\ \A i \in 1..Len(on_input_ret.misses), j \in 1..Len(on_input_ret.results) :
              on_input_ret.misses[i].record # on_input_ret.results[j]
        /\ Len(on_input_ret.misses) + Len(on_input_ret.results) = Len(call.data)

\* One batch gave a forwarded row and a Miss.
C7_Witness ==
    /\ on_input_ret # NoRet
    /\ on_input_ret.results # <<>>
    /\ on_input_ret.misses # <<>>

\* C8 as stated: deriving the lookup key of a Miss whose lookup_cols and
\* lookup_idx differ in length aborts.
C8_MismatchAborts ==
    Called({"lookup_key", "lookup_key_vec"})
        /\ Len(miss.lookup_cols) # Len(miss.lookup_idx) =>
        key_out.val = Panic

\* C8 amended: the lengths are not compared; deriving the lookup key aborts
\* exactly when a lookup_cols index is outside record, and otherwise gives a
\* key of the length of lookup_cols.
C8_AbortsOnlyOutOfRange ==
    Called({"lookup_key", "lookup_key_vec"}) =>
        /\ (key_out.val = Panic) <=> ~InRangeCols(miss.record, miss.lookup_cols)
        /\ key_out.val # Panic => Len(key_out.val.val) = Len(miss.lookup_cols)

\* A key was derived from a Miss with one lookup column and two index columns.
C8_Witness ==
    /\ Called({"lookup_key_vec"})
    /\ Len(miss.lookup_cols) = 1
    /\ Len(miss.lookup_idx) = 2
    /\ key_out.val.tag = "Ok"

\* C9: while on_input_raw, on_input, lookup or query_through runs, the state
\* map, the replay context and the domain's nodes stay as they are; only a
\* step of the driver, taken between invocations, changes them.
C9_CallsLeaveStatesAndReplay ==
    [][~Idle => (states' = states /\ replay' = replay /\ domains' = domains)]_vars

\* An invocation under a partial replay has returned after a lookup that went
\* through the parent's query_through.
C9_Witness ==
    /\ Idle
    /\ raw_ret # NoRet
    /\ replay.variant = "Partial"
    /\ Looked
    /\ last_lookup.through
    /\ \E n \in DOMAIN states : states[n].rows # {}

\* C10: every lookup returns, and its recursion is never deeper than one
\* lookup and one query_through per node of the chain.
C10_LookupTerminates ==
    /\ [](Len(stack) <= 2 * (Cardinality(Nodes) - 1))
    /\ (~Idle) ~> Idle

\* A lookup has returned after descending through a filter to a node that
\* is neither materialized nor able to be queried through.
C10_Witness ==
    /\ Idle
    /\ Looked
    /\ last_lookup.self = Top
    /\ last_lookup.through
    /\ domains[last_lookup.parent].kind = "filter"
    /\ ~Materialized(domains[last_lookup.parent].src)
    /\ is_internal(domains[domains[last_lookup.parent].src])

====
